---- MODULE Spec2Model ----
(***************************************************************************)
(* The streaming engine of the Firehose adapter: Firehose::blocks of       *)
(* src/src/firehose.rs, one subscription run against a portal adapter, an  *)
(* optional RPC adapter and its hot-block stream.                          *)
(*                                                                         *)
(* The adapters (crate::datasource) and the cursor codec (crate::cursor)   *)
(* are not part of the sources at hand; their behaviour follows sections   *)
(* 3, 4.3, 4.4 and 4.5 of the specification.                               *)
(***************************************************************************)
EXTENDS Integers, Sequences, FiniteSets, TLC

\* Highest block height of the modelled chain.
MaxHeight == 4
\* Number of HotUpdate values the hot stream delivers at most.
MaxUpdates == 3

\* Number of HotUpdate values after which a client resumes a live subscription.
ResumeAfter == 2
\* Number of HotUpdate values each of two concurrent subscriptions receives at most.
PairUpdates == 1

\* Width of the signed integers start_block_num is drawn from (i64, scaled down).
I64Bits == 5
I64_MIN == 0 - 2 ^ (I64Bits - 1)

\* Request parameters the subscriptions are drawn from.
StartNums == {I64_MIN, -3, -1, 0, 2}
StopNums == {0, 2, 3}
\* A portal alone, holding the finalized blocks 0..10, is also asked to stop at 5.
PortalOnlyStopNums == StopNums \cup {5}
PortalOnlyHeights == {1, 3, 10}
CursorHeights == {1, 3}
PortalHeights == {1, 3}
RpcHeights == {2, 3}
\* A HotUpdate carries at most this many blocks, a reorg is at most this deep.
UpdBlocks == {0, 1, 2}
\* The sizes of the updates of a node that replaces two blocks by three.
ReorgUpdBlocks == {0, 2, 3}
ReorgDepths == {1, 2}
\* Two branches of the chain: 0 is the chain the finalized sources serve.
Branches == {0, 1}

VARIABLES
    request,        \* the Request of the subscription
    has_rpc,        \* Firehose.rpc is Some
    portal_finalized,   \* what portal.get_finalized_height() returns
    rpc_finalized,      \* what rpc.get_finalized_height() returns
    matching,       \* heights of the blocks that match the compiled filters
    pc,             \* position in Firehose::blocks
    err,            \* the error the subscription ended with
    state,          \* State(Option<HashAndHeight>): <<>> or <<v>>
    start_block,    \* resolved start
    to_block,       \* Option<u64>: <<>> or <<n>>
    filtered,       \* the compiled logs/traces lists are not empty
    logs,           \* Vec<LogRequest> compiled from the transforms
    traces,         \* Vec<TraceRequest> compiled from the transforms
    stream,         \* blocks the open finalized stream still holds
    rpc_to,         \* `to` of phase B
    last_head,      \* phase C: last_head
    new_head,       \* phase C: new_head of the update in progress
    upd,            \* phase C: the update in progress
    nupd,           \* number of hot updates received
    updates,        \* the hot updates received, as the adapter sent them
    chain,          \* the node's canonical branch at each height
    out,            \* responses yielded so far
    calls,          \* adapter calls issued so far
    delivered,      \* blocks the adapters handed to the engine so far
    mode,           \* "first", or "resumed": the subscription made with a cursor of the first
    resumed_from,   \* the response whose cursor the resumed subscription was given
    following,      \* the responses that followed it in the first subscription
    replay,         \* the hot updates the adapter has for the resumed subscription
    block_request,  \* the SingleBlockRequest given to block()
    portal_block,   \* the block the portal holds at the requested height
    block_reply,    \* what block() returned
    active,         \* the subscription task that is running: 1 or 2
    parked          \* the locals of the subscription task that is suspended

vars == <<request, has_rpc, portal_finalized, rpc_finalized, matching, pc, err,
          state, start_block, to_block, filtered, logs, traces, stream, rpc_to, last_head,
          new_head, upd, nupd, updates, chain, out, calls, delivered, mode,
          resumed_from, following, replay, block_request, portal_block, block_reply,
          active, parked>>

Max(a, b) == IF a >= b THEN a ELSE b
Min(a, b) == IF a <= b THEN a ELSE b

\* ------------------------------------------------------------- data model

Hash(h, b) == <<h, b>>
HashAndHeight(h, b) == [hash |-> Hash(h, b), height |-> h]
\* the parent's number taken for the block's
BlockHead_Parent(block) == [hash |-> block.hash, height |-> block.height - 1]

\* (&block).into(): the block's header hash and number
BlockHead(block) == [hash |-> block.hash, height |-> block.height]
NoHead == [hash |-> <<>>, height |-> -1]
NoUpdate == [base_head |-> NoHead, finalized_head |-> NoHead, blocks |-> <<>>]
NoResponse ==
    [step |-> "none", number |-> -1, hash |-> <<>>, parent_hash |-> <<>>, cursor |-> <<>>,
     src |-> "none", upd |-> 0]

CursorNew(block, finalized) == [block |-> block, finalized |-> finalized]
\* Cursor::to_string and Cursor::try_from: a text of four fields that parses back
CursorToString(c) ==
    <<c.block.hash, c.block.height, c.finalized.hash, c.finalized.height>>
CursorTryFrom(s) ==
    IF Len(s) = 4
    THEN <<[block |-> [hash |-> s[1], height |-> s[2]],
            finalized |-> [hash |-> s[3], height |-> s[4]]]>>
    ELSE <<>>

\* block() has not been called
NoBlockRequest == [transforms |-> <<>>, reference |-> [kind |-> "none", num |-> 0, cursor |-> <<>>]]
NoBlock == [header |-> [number |-> 0, valid |-> TRUE], transactions |-> <<>>, logs |-> <<>>,
            traces |-> <<>>]
NoReply == [kind |-> "none", err |-> "none", block |-> <<>>]

\* ------------------------------------------------------------- State

StateNew == <<>>
next_block(s) == IF s = <<>> THEN 0 ELSE s[1].height + 1
current_block(s) == IF s = <<>> THEN -1 ELSE s[1].height
StateCursor(s) == CursorNew(s[1], s[1])
StateUpdate(value) == <<value>>
\* the finalized head of the cursor taken for its block
StateFromCursor_Finalized(cursor) == <<cursor.finalized>>
StateFromCursor(cursor) == <<cursor.block>>

\* ------------------------------------------------------------- request normalisation

\* firehose.rs 25: start_block_num.abs() has no value in i64
AbsOverflows(start_block_num) == start_block_num = I64_MIN

\* what i64::abs does then: it panics where overflow is checked, else it wraps to
\* i64::MIN and u64::try_from refuses the negative number
AbsOverflowOutcomes == {"panic", "TryFromInt"}

resolve_negative_start(start_block_num, head) ==
    IF start_block_num < 0
    THEN IF head > 0 THEN Max(head - (0 - start_block_num), 0) ELSE 0
    ELSE start_block_num

\* the final_blocks_only check left out
FinalBlocksOnly_Ignored(req) == FALSE

FinalBlocksOnlyRejected(req) == req.final_blocks_only

ToBlock(req) == IF req.stop_block_num = 0 THEN <<>> ELSE <<req.stop_block_num>>

\* Ok(<<state>>) or the error of Cursor::try_from
InitialState(cursor) ==
    IF cursor = <<>>
    THEN [ok |-> TRUE, state |-> StateNew]
    ELSE IF CursorTryFrom(cursor) = <<>>
         THEN [ok |-> FALSE, state |-> StateNew]
         ELSE [ok |-> TRUE, state |-> StateFromCursor(CursorTryFrom(cursor)[1])]

\* only the first transform is validated
TransformError_FirstOnly(ts) ==
    IF ts = <<>> THEN "none"
    ELSE IF ~Head(ts).decodable THEN "Decode"
    ELSE IF Head(ts).send_all_block_headers THEN "Unsupported"
    ELSE "none"

\* The transform loop: the first transform that fails to decode or asks for
\* send_all_block_headers ends it.
RECURSIVE TransformError(_)
TransformError(ts) ==
    IF ts = <<>> THEN "none"
    ELSE IF ~Head(ts).decodable THEN "Decode"
    ELSE IF Head(ts).send_all_block_headers THEN "Unsupported"
    ELSE TransformError(Tail(ts))

\* prefix_hex::encode: the text "0x" and the digits of the bytes
HexEncode(bytes) == <<"0x", bytes>>
HexLessEq(x, y) == x[2] <= y[2]

\* Vec::sort of a list of hex texts
RECURSIVE SortInsert(_, _)
SortInsert(x, sorted) ==
    IF sorted = <<>> THEN <<x>>
    ELSE IF HexLessEq(x, Head(sorted)) THEN <<x>> \o sorted
    ELSE <<Head(sorted)>> \o SortInsert(x, Tail(sorted))

\* the list left in the order of the filter
Sort_Unsorted(list) == list

RECURSIVE Sort(_)
Sort(list) == IF list = <<>> THEN <<>> ELSE SortInsert(Head(list), Sort(Tail(list)))

EncodeAll(list) == [i \in DOMAIN list |-> HexEncode(list[i])]

\* firehose.rs 374-392 and 143-144: LogRequest::from(log_filter), topic0 sorted
LogRequestFrom(log_filter) ==
    [address |-> EncodeAll(log_filter.addresses),
     topic0 |-> Sort(EncodeAll(log_filter.event_signatures))]

\* firehose.rs 394-412 and 159-160: TraceRequest::from(call_filter), sighash sorted
TraceRequestFrom(call_filter) ==
    [address |-> EncodeAll(call_filter.addresses),
     sighash |-> Sort(EncodeAll(call_filter.signatures))]

Contains(list, x) == \E i \in DOMAIN list : list[i] = x

\* firehose.rs 148-152, 164-168: the addresses not yet there are pushed
RECURSIVE PushMissing(_, _)
PushMissing(address, more) ==
    IF more = <<>> THEN address
    ELSE PushMissing(IF Contains(address, Head(more)) THEN address
                     ELSE Append(address, Head(more)), Tail(more))

\* firehose.rs 146-155: the first entry with the same topic0 takes the addresses,
\* else the request is pushed
MergeLog(list, log_request) ==
    IF \E i \in DOMAIN list : list[i].topic0 = log_request.topic0
    THEN LET i == CHOOSE i \in DOMAIN list :
                    /\ list[i].topic0 = log_request.topic0
                    /\ \A j \in DOMAIN list : list[j].topic0 = log_request.topic0 => i <= j
         IN [list EXCEPT ![i].address = PushMissing(list[i].address, log_request.address)]
    ELSE Append(list, log_request)

\* firehose.rs 162-171
MergeTrace(list, trace_request) ==
    IF \E i \in DOMAIN list : list[i].sighash = trace_request.sighash
    THEN LET i == CHOOSE i \in DOMAIN list :
                    /\ list[i].sighash = trace_request.sighash
                    /\ \A j \in DOMAIN list : list[j].sighash = trace_request.sighash => i <= j
         IN [list EXCEPT ![i].address = PushMissing(list[i].address, trace_request.address)]
    ELSE Append(list, trace_request)

RECURSIVE MergeLogs(_, _)
MergeLogs(list, log_filters) ==
    IF log_filters = <<>> THEN list
    ELSE MergeLogs(MergeLog(list, LogRequestFrom(Head(log_filters))), Tail(log_filters))

RECURSIVE MergeTraces(_, _)
MergeTraces(list, call_filters) ==
    IF call_filters = <<>> THEN list
    ELSE MergeTraces(MergeTrace(list, TraceRequestFrom(Head(call_filters))), Tail(call_filters))

\* firehose.rs 133-173: the lists after the loop over the transforms
RECURSIVE CompileLogsFrom(_, _)
CompileLogsFrom(list, ts) ==
    IF ts = <<>> THEN list
    ELSE CompileLogsFrom(MergeLogs(list, Head(ts).log_filters), Tail(ts))

RECURSIVE CompileTracesFrom(_, _)
CompileTracesFrom(list, ts) ==
    IF ts = <<>> THEN list
    ELSE CompileTracesFrom(MergeTraces(list, Head(ts).call_filters), Tail(ts))

CompileLogs(ts) == CompileLogsFrom(<<>>, ts)
CompileTraces(ts) == CompileTracesFrom(<<>>, ts)

CompiledFilters(ts) == CompileLogs(ts) # <<>> \/ CompileTraces(ts) # <<>>

\* ------------------------------------------------------------- adapters

Heights == 0..MaxHeight

\* the blocks of heights lo..hi, ascending, that the filters keep
RECURSIVE RangeBlocks(_, _, _)
RangeBlocks(lo, hi, keep) ==
    IF lo > hi THEN <<>>
    ELSE IF lo \in keep
         THEN <<HashAndHeight(lo, 0)>> \o RangeBlocks(lo + 1, hi, keep)
         ELSE RangeBlocks(lo + 1, hi, keep)

Kept == IF filtered THEN matching ELSE Nat

\* portal.get_finalized_blocks: finalized blocks of [from, to?], up to the portal's height
PortalBlocks(from, to) ==
    RangeBlocks(from, IF to = <<>> THEN portal_finalized ELSE Min(to[1], portal_finalized), Kept)

\* rpc.get_finalized_blocks: the blocks of [from, to]
RpcBlocks(from, to) == RangeBlocks(from, Min(to[1], MaxHeight), Kept)

\* rpc.get_block_hash
get_block_hash(height) == Hash(height, 0)

\* the head is a block of the node's canonical chain
OnChain(head) == head.height \in Heights /\ head.hash = Hash(head.height, chain[head.height])

\* rpc.get_hot_blocks: the next HotUpdate. base_head is the head the adapter
\* reported last when the node still has it, else a common ancestor below it, never
\* below a finalized height; the blocks descend from base_head and stay inside the
\* requested range.
\* the numbers of blocks an update may carry
UpdateSizes == IF mode = "reorg" THEN ReorgUpdBlocks ELSE UpdBlocks

HotChoices(head, to) ==
    {c \in [b : Heights, k : UpdateSizes] :
        /\ c.b <= head.height
        /\ c.b = head.height => OnChain(head)
        /\ c.b < head.height => head.height - c.b \in ReorgDepths
        /\ c.b < head.height => c.b >= Max(portal_finalized, rpc_finalized)
        /\ c.k = 0 \/ c.b + c.k <= (IF to = <<>> THEN MaxHeight ELSE Min(to[1], MaxHeight))}

HotChain(head, c) ==
    IF c.b < head.height /\ OnChain(head)
    THEN [x \in Heights |-> IF x > c.b THEN 1 - chain[x] ELSE chain[x]]
    ELSE chain

RECURSIVE HotBlocks(_, _, _)
HotBlocks(lo, hi, ch) ==
    IF lo > hi THEN <<>> ELSE <<HashAndHeight(lo, ch[lo])>> \o HotBlocks(lo + 1, hi, ch)

\* the head the adapter reported last: the last_head it was opened with, then the
\* last block of its last update, or that update's base_head
AdapterHead ==
    IF updates = <<>>
    THEN calls[Len(calls)].head
    ELSE LET u == updates[Len(updates)]
         IN IF u.blocks = <<>> THEN u.base_head ELSE BlockHead(u.blocks[Len(u.blocks)])

HotUpdateOf(head, c) ==
    [base_head |-> HashAndHeight(c.b, chain[c.b]),
     finalized_head |-> HashAndHeight(rpc_finalized, 0),
     blocks |-> HotBlocks(c.b + 1, c.b + c.k, HotChain(head, c))]

\* what the hot stream yields next: any update the node's chain allows, or, for a
\* resumed subscription, the update that came next in the first one
HotOffers ==
    IF mode = "resumed"
    THEN IF replay = <<>> THEN {} ELSE {[update |-> Head(replay), chain |-> chain]}
    ELSE {[update |-> HotUpdateOf(AdapterHead, c), chain |-> HotChain(AdapterHead, c)] :
            c \in HotChoices(AdapterHead, to_block)}

HeightCall(ds) ==
    [op |-> "get_finalized_height", ds |-> ds, from |-> 0, to |-> <<>>, head |-> NoHead]
DataCall(op, ds, from, to) == [op |-> op, ds |-> ds, from |-> from, to |-> to, head |-> NoHead]
HotCall(from, to, head) ==
    [op |-> "get_hot_blocks", ds |-> "rpc", from |-> from, to |-> to, head |-> head]

\* ------------------------------------------------------------- responses

NewResponse(block, cursor, src, u) ==
    [step |-> "NEW", number |-> block.height, hash |-> block.hash, parent_hash |-> <<>>,
     cursor |-> CursorToString(cursor), src |-> src, upd |-> u]

\* the UNDO names the height of base_head
UndoResponse_BaseNumber(head, base, cursor, u) ==
    [step |-> "UNDO", number |-> base.height, hash |-> <<>>, parent_hash |-> base.hash,
     cursor |-> CursorToString(cursor), src |-> "hot", upd |-> u]

\* firehose.rs 288-302: the block of an UNDO has number and parent_hash only
UndoResponse(head, base, cursor, u) ==
    [step |-> "UNDO", number |-> head.height, hash |-> <<>>, parent_hash |-> base.hash,
     cursor |-> CursorToString(cursor), src |-> "hot", upd |-> u]

\* the response overtakes the ones yielded before
Yield_First(responses, r) == <<r>> \o responses

\* yield: the response goes out after the ones yielded before
Yield(responses, r) == Append(responses, r)

\* ------------------------------------------------------------- the subscription

\* CombinedFilter values: decodable is whether CombinedFilter::decode accepts the bytes
CombinedFilter(log_filters, call_filters) ==
    [decodable |-> TRUE, send_all_block_headers |-> FALSE,
     log_filters |-> log_filters, call_filters |-> call_filters]
LogFilter(addresses, event_signatures) ==
    [addresses |-> addresses, event_signatures |-> event_signatures]
CallToFilter(addresses, signatures) == [addresses |-> addresses, signatures |-> signatures]

Transforms ==
    { <<>>,
      <<CombinedFilter(<<LogFilter(<<1>>, <<1>>)>>, <<>>)>>,
      <<CombinedFilter(<<LogFilter(<<1>>, <<1>>)>>, <<>>),
        [decodable |-> TRUE, send_all_block_headers |-> TRUE,
         log_filters |-> <<>>, call_filters |-> <<>>]>>,
      <<[decodable |-> FALSE, send_all_block_headers |-> FALSE,
         log_filters |-> <<>>, call_filters |-> <<>>]>> }

Cursors ==
    { <<>>, <<0>> } \cup
    { CursorToString(CursorNew(HashAndHeight(h, b), HashAndHeight(h, b))) :
        h \in CursorHeights, b \in Branches }

Requests ==
    [final_blocks_only : BOOLEAN, start_block_num : StartNums,
     stop_block_num : PortalOnlyStopNums, cursor : Cursors, transforms : Transforms]

\* one subscription, no other task
NoContext == <<>>
Alone == active = 1 /\ parked = NoContext

\* nothing of the subscription has run
Fresh ==
    /\ pc = "init"
    /\ err = "none"
    /\ state = StateNew
    /\ start_block = 0
    /\ to_block = <<>>
    /\ filtered = FALSE
    /\ logs = <<>>
    /\ traces = <<>>
    /\ stream = <<>>
    /\ rpc_to = 0
    /\ last_head = NoHead
    /\ new_head = NoHead
    /\ upd = NoUpdate
    /\ nupd = 0
    /\ updates = <<>>
    /\ chain = [h \in Heights |-> 0]
    /\ out = <<>>
    /\ calls = <<>>
    /\ delivered = <<>>
    /\ mode = "first"
    /\ resumed_from = NoResponse
    /\ following = <<>>
    /\ replay = <<>>
    /\ block_reply = NoReply

Init ==
    /\ request \in Requests
    /\ has_rpc \in BOOLEAN
    /\ has_rpc => request.stop_block_num \in StopNums
    /\ portal_finalized \in (IF has_rpc THEN PortalHeights ELSE PortalOnlyHeights)
    /\ rpc_finalized \in (IF has_rpc THEN RpcHeights ELSE {0})
    \* a cursor at or below a finalized height names the finalized block
    /\ (Len(request.cursor) = 4 /\ request.cursor[1] # Hash(request.cursor[2], 0))
            => request.cursor[2] > Max(portal_finalized, rpc_finalized)
    /\ matching \in (IF CompiledFilters(request.transforms)
                          /\ TransformError(request.transforms) = "none"
                     THEN {{}, {h \in Heights : h % 2 = 1}} ELSE {Heights})
    /\ block_request = NoBlockRequest
    /\ portal_block = NoBlock
    /\ Alone
    /\ Fresh

\* ------------------------------------------------------------- blocks()

\* whether an adapter call or the encoding of a block succeeds: either way for the
\* first subscription; the resumed one gets the answers the first one got
Outcomes == IF mode \in {"first", "reorg"} THEN BOOLEAN ELSE {TRUE}

\* the error is noted and the stream goes on
Fail_Continue(kind) == pc' = pc /\ err' = kind

\* the ? inside try_stream!: the stream yields the error and ends
Fail(kind) == pc' = "error" /\ err' = kind

\* how pbcodec::Block::try_from(block) ends, the block being any block: with the
\* encoded block, with an error, or with the panic of get_tx_trace_status
EncodeOutcomes ==
    IF mode \in {"first", "reorg"} THEN {"ok", "error", "panic"} ELSE {"ok"}
Panic(message) == pc' = "panic" /\ err' = message
Reject(kind) == pc' = "rejected" /\ err' = kind

\* firehose.rs 107-178: the synchronous part of blocks()
Blocks ==
    /\ pc = "init"
    /\ UNCHANGED <<active, parked, block_request, portal_block, block_reply, mode, resumed_from, following, replay, request, has_rpc, portal_finalized, rpc_finalized, matching, stream,
                   rpc_to, last_head, new_head, upd, nupd, updates, chain, out, delivered>>
    /\ IF FinalBlocksOnlyRejected(request)
       THEN /\ Reject("Unsupported")
            /\ UNCHANGED <<state, start_block, to_block, filtered, logs, traces, calls>>
       ELSE IF AbsOverflows(request.start_block_num)
       THEN /\ \E o \in AbsOverflowOutcomes :
                 IF o = "panic"
                 THEN Panic("attempt to negate with overflow")
                 ELSE Reject(o)
            /\ UNCHANGED <<state, start_block, to_block, filtered, logs, traces, calls>>
       ELSE \E height_ok \in (IF request.start_block_num < 0 THEN Outcomes ELSE {TRUE}) :
            LET head == IF has_rpc THEN rpc_finalized ELSE portal_finalized
                init == InitialState(request.cursor)
                terr == TransformError(request.transforms)
            IN  /\ calls' = IF request.start_block_num < 0
                            THEN Append(calls, HeightCall(IF has_rpc THEN "rpc" ELSE "portal"))
                            ELSE calls
                /\ IF ~height_ok
                   THEN Reject("Upstream") /\ UNCHANGED <<state, start_block, to_block, filtered, logs, traces>>
                   ELSE IF ~init.ok
                   THEN Reject("Cursor") /\ UNCHANGED <<state, start_block, to_block, filtered, logs, traces>>
                   ELSE IF terr # "none"
                   THEN Reject(terr) /\ UNCHANGED <<state, start_block, to_block, filtered, logs, traces>>
                   ELSE /\ pc' = "created"
                        /\ err' = err
                        /\ state' = init.state
                        /\ start_block' = resolve_negative_start(request.start_block_num, head)
                        /\ to_block' = ToBlock(request)
                        /\ logs' = CompileLogs(request.transforms)
                        /\ traces' = CompileTraces(request.transforms)
                        /\ filtered' = CompiledFilters(request.transforms)

\* phase A entered whatever the heights are
EnterPortal_Always(portal_height, s, rpc_is_some) == TRUE

\* the portal height alone decides
EnterPortal_HeightOnly(portal_height, s, rpc_is_some) == portal_height > current_block(s)

\* entered also when the cursor is at the portal's height
EnterPortal_AtOrAbove(portal_height, s, rpc_is_some) ==
    portal_height >= current_block(s) \/ ~rpc_is_some

\* firehose.rs 180: phase A is entered
EnterPortal(portal_height, s, rpc_is_some) == portal_height > current_block(s) \/ ~rpc_is_some

\* from one block too far, and from the current block instead of the next
RequestFrom_Skip(s, start) == Max(next_block(s) + 1, start)
RequestFrom_Current(s, start) == Max(current_block(s), start)

\* firehose.rs 182, 228, 264: from of a data request
RequestFrom(s, start) == Max(next_block(s), start)

\* firehose.rs 207-211, 256-260: the stop block is the current block
StopReached(s, to) == to # <<>> /\ s # <<>> /\ current_block(s) = to[1]

\* firehose.rs 179-188: the stream is polled first
StartStream ==
    /\ pc = "created"
    /\ UNCHANGED <<active, parked, block_request, portal_block, block_reply, mode, resumed_from, following, replay, request, has_rpc, portal_finalized, rpc_finalized, matching, state,
                   start_block, to_block, filtered, logs, traces, rpc_to, last_head, new_head, upd,
                   nupd, updates, chain, out, delivered>>
    /\ \E height_ok \in Outcomes, blocks_ok \in Outcomes :
         IF ~height_ok
         THEN /\ Fail("Upstream")
              /\ calls' = Append(calls, HeightCall("portal"))
              /\ stream' = stream
         ELSE IF EnterPortal(portal_finalized, state, has_rpc)
         THEN LET from == RequestFrom(state, start_block)
              IN /\ calls' = calls \o <<HeightCall("portal"),
                                        DataCall("get_finalized_blocks", "portal", from, to_block)>>
                 /\ IF blocks_ok
                    THEN pc' = "portal" /\ err' = err /\ stream' = PortalBlocks(from, to_block)
                    ELSE Fail("Upstream") /\ stream' = stream
         ELSE /\ blocks_ok
              /\ calls' = Append(calls, HeightCall("portal"))
              /\ pc' = (IF has_rpc THEN "rpc_check" ELSE "done")
              /\ err' = err /\ stream' = stream

\* firehose.rs 189-204 and 235-250: one block of a finalized stream
FinalizedBlock(src) ==
    /\ stream # <<>>
    /\ UNCHANGED <<active, parked, block_request, portal_block, block_reply, mode, resumed_from, following, replay, request, has_rpc, portal_finalized, rpc_finalized, matching,
                   start_block, to_block, filtered, logs, traces, rpc_to, last_head, new_head, upd,
                   nupd, updates, chain, calls>>
    /\ \E item_ok \in Outcomes, encoded \in EncodeOutcomes :
         IF ~item_ok
         THEN /\ encoded = "ok"
              /\ Fail("Upstream")
              /\ UNCHANGED <<state, stream, out, delivered>>
         ELSE LET block == Head(stream)
                  s == StateUpdate(BlockHead(block))
              IN /\ state' = s
                 /\ stream' = Tail(stream)
                 /\ delivered' = Append(delivered, block)
                 /\ IF encoded = "ok"
                    THEN /\ out' = Yield(out, NewResponse(block, StateCursor(s), src, 0))
                         /\ UNCHANGED <<pc, err>>
                    ELSE IF encoded = "error"
                    THEN Fail("Encoding") /\ out' = out
                    ELSE Panic("index out of bounds") /\ out' = out

PortalBlock == pc = "portal" /\ FinalizedBlock("portal")

\* firehose.rs 205-218: the portal stream is drained
PortalEnd ==
    /\ pc = "portal"
    /\ stream = <<>>
    /\ pc' = IF StopReached(state, to_block) THEN "done"
             ELSE IF ~has_rpc THEN "done"
             ELSE "rpc_check"
    /\ UNCHANGED <<active, parked, block_request, portal_block, block_reply, mode, resumed_from, following, replay, request, has_rpc, portal_finalized, rpc_finalized, matching, err, state,
                   start_block, to_block, filtered, logs, traces, stream, rpc_to, last_head, new_head,
                   upd, nupd, updates, chain, out, calls, delivered>>

\* phase B is passed over
EnterRpc_Never(rpc_height, s) == FALSE

\* firehose.rs 221: phase B is entered
EnterRpc(rpc_height, s) == rpc_height > current_block(s)

\* max instead of min
RpcTo_Max(to, rpc_height) == IF to # <<>> THEN Max(to[1], rpc_height) ELSE rpc_height

\* firehose.rs 222-226: the upper bound of phase B
RpcTo(to, rpc_height) == IF to # <<>> THEN Min(to[1], rpc_height) ELSE rpc_height

\* firehose.rs 220-234: phase B is considered
RpcStart ==
    /\ pc = "rpc_check"
    /\ UNCHANGED <<active, parked, block_request, portal_block, block_reply, mode, resumed_from, following, replay, request, has_rpc, portal_finalized, rpc_finalized, matching, state,
                   start_block, to_block, filtered, logs, traces, last_head, new_head, upd, nupd, updates,
                   chain, out, delivered>>
    /\ \E height_ok \in Outcomes, blocks_ok \in Outcomes :
         IF ~height_ok
         THEN /\ Fail("Upstream")
              /\ calls' = Append(calls, HeightCall("rpc"))
              /\ UNCHANGED <<stream, rpc_to>>
         ELSE IF EnterRpc(rpc_finalized, state)
         THEN LET to == RpcTo(to_block, rpc_finalized)
                  from == RequestFrom(state, start_block)
              IN /\ calls' = calls \o <<HeightCall("rpc"),
                                        DataCall("get_finalized_blocks", "rpc", from, <<to>>)>>
                 /\ IF blocks_ok
                    THEN /\ pc' = "rpc" /\ err' = err
                         /\ stream' = RpcBlocks(from, <<to>>)
                         /\ rpc_to' = to
                    ELSE Fail("Upstream") /\ UNCHANGED <<stream, rpc_to>>
         ELSE /\ blocks_ok
              /\ calls' = Append(calls, HeightCall("rpc"))
              /\ pc' = "hot_start" /\ err' = err
              /\ UNCHANGED <<stream, rpc_to>>

RpcBlock == pc = "rpc" /\ FinalizedBlock("rpc")

\* the state is advanced to the RPC finalized height, whatever the stop is
RpcEndValue_Height(to) == [hash |-> get_block_hash(rpc_finalized), height |-> rpc_finalized]

\* firehose.rs 253: the value the state is advanced to when phase B is drained
RpcEndValue(to) == [hash |-> get_block_hash(to), height |-> to]

\* firehose.rs 251-260: the RPC finalized stream is drained
RpcEnd ==
    /\ pc = "rpc"
    /\ stream = <<>>
    /\ UNCHANGED <<active, parked, block_request, portal_block, block_reply, mode, resumed_from, following, replay, request, has_rpc, portal_finalized, rpc_finalized, matching,
                   start_block, to_block, filtered, logs, traces, stream, rpc_to, last_head, new_head,
                   upd, nupd, updates, chain, out, delivered>>
    /\ calls' = Append(calls, DataCall("get_block_hash", "rpc", rpc_to, <<>>))
    /\ \E hash_ok \in Outcomes :
         IF hash_ok
         THEN LET s == StateUpdate(RpcEndValue(rpc_to))
              IN /\ state' = s
                 /\ pc' = IF StopReached(s, to_block) THEN "done" ELSE "hot_start"
                 /\ err' = err
         ELSE Fail("Upstream") /\ state' = state

\* firehose.rs 263-271: the hot stream is opened
HotStart ==
    /\ pc = "hot_start"
    /\ UNCHANGED <<active, parked, block_request, portal_block, block_reply, mode, resumed_from, following, replay, request, has_rpc, portal_finalized, rpc_finalized, matching, state,
                   start_block, to_block, filtered, logs, traces, stream, rpc_to, new_head, upd, nupd, updates,
                   chain, out, delivered>>
    /\ IF state = <<>>
       THEN /\ Panic("state should be updated first")
            /\ UNCHANGED <<last_head, calls>>
       ELSE \E hot_ok \in Outcomes :
            /\ last_head' = state[1]
            /\ calls' = Append(calls, HotCall(RequestFrom(state, start_block), to_block,
                                               state[1]))
            /\ IF hot_ok THEN pc' = "hot" /\ err' = err ELSE Fail("Upstream")

\* the hot stream is followed for MaxUpdates updates, for PairUpdates when two
\* subscriptions run
UpdateLimit == IF mode = "paired" THEN PairUpdates ELSE MaxUpdates

\* firehose.rs 275-283
NewHead(u) ==
    IF u.blocks = <<>> THEN u.base_head ELSE BlockHead(u.blocks[Len(u.blocks)])

\* firehose.rs 285
IsFork(u, head) == u.base_head # head

\* firehose.rs 272-303: the next HotUpdate arrives
HotUpdate ==
    /\ pc = "hot"
    /\ nupd < UpdateLimit
    /\ UNCHANGED <<active, parked, block_request, portal_block, block_reply, mode, resumed_from, following, request, has_rpc, portal_finalized, rpc_finalized, matching, state,
                   start_block, to_block, filtered, logs, traces, stream, rpc_to, last_head, calls,
                   delivered>>
    /\ \E item_ok \in Outcomes :
         IF ~item_ok
         THEN Fail("Upstream") /\ UNCHANGED <<new_head, upd, nupd, updates, chain, out, replay>>
         ELSE \E offer \in HotOffers :
              LET u == offer.update
              IN /\ chain' = offer.chain
                 /\ replay' = IF mode = "resumed" THEN Tail(replay) ELSE replay
                 /\ nupd' = nupd + 1
                 /\ updates' = Append(updates, u)
                 /\ upd' = u
                 /\ new_head' = NewHead(u)
                 /\ out' = IF IsFork(u, last_head)
                           THEN Yield(out, UndoResponse(last_head, u.base_head,
                                           CursorNew(u.base_head, u.finalized_head), nupd + 1))
                           ELSE out
                 /\ pc' = "hot_blocks" /\ err' = err

\* firehose.rs 305-316: one block of the update
HotBlock ==
    /\ pc = "hot_blocks"
    /\ upd.blocks # <<>>
    /\ UNCHANGED <<active, parked, block_request, portal_block, block_reply, mode, resumed_from, following, replay, request, has_rpc, portal_finalized, rpc_finalized, matching, state,
                   start_block, to_block, filtered, logs, traces, stream, rpc_to, last_head, new_head,
                   nupd, updates, chain, calls>>
    /\ LET block == Head(upd.blocks)
       IN /\ upd' = [upd EXCEPT !.blocks = Tail(upd.blocks)]
          /\ delivered' = Append(delivered, block)
          /\ \E encoded \in EncodeOutcomes :
               IF encoded = "ok"
               THEN /\ out' = Yield(out, NewResponse(block,
                                    CursorNew(BlockHead(block), upd.finalized_head), "hot", nupd))
                    /\ UNCHANGED <<pc, err>>
               ELSE IF encoded = "error"
               THEN Fail("Encoding") /\ out' = out
               ELSE Panic("index out of bounds") /\ out' = out

\* last_head is never advanced
NextHead_Stale(head, new) == head

\* firehose.rs 318: last_head = new_head
NextHead(head, new) == new

\* firehose.rs 317-319: the update is done
HotUpdateEnd ==
    /\ pc = "hot_blocks"
    /\ upd.blocks = <<>>
    /\ last_head' = NextHead(last_head, new_head)
    /\ pc' = "hot"
    /\ UNCHANGED <<active, parked, block_request, portal_block, block_reply, mode, resumed_from, following, replay, request, has_rpc, portal_finalized, rpc_finalized, matching, err, state,
                   start_block, to_block, filtered, logs, traces, stream, rpc_to, new_head, upd, nupd, updates,
                   chain, out, calls, delivered>>

Next ==
    \/ Blocks
    \/ StartStream
    \/ PortalBlock
    \/ PortalEnd
    \/ RpcStart
    \/ RpcBlock
    \/ RpcEnd
    \/ HotStart
    \/ HotUpdate
    \/ HotBlock
    \/ HotUpdateEnd

Spec == Init /\ [][Next]_vars

\* ------------------------------------------------------------- resuming

\* what the client sees of a response
Visible(r) ==
    [step |-> r.step, number |-> r.number, hash |-> r.hash, parent_hash |-> r.parent_hash,
     cursor |-> r.cursor]
VisibleSeq(rs) == [i \in 1..Len(rs) |-> Visible(rs[i])]

\* the hot updates still ahead of response n: all of them for a response of the
\* finalized phases; for a hot response the rest of its update, from the block of
\* the response (for an UNDO from the update's base_head), and the updates after it
ReplayFrom(n) ==
    LET r == out[n]
    IN  IF r.src # "hot" THEN updates
        ELSE LET u == updates[r.upd]
                 j == Cardinality({i \in 1..n : out[i].step = "NEW" /\ out[i].src = "hot"
                                                  /\ out[i].upd = r.upd})
             IN <<[base_head |-> IF j = 0 THEN u.base_head ELSE BlockHead(u.blocks[j]),
                   finalized_head |-> u.finalized_head,
                   blocks |-> SubSeq(u.blocks, j + 1, Len(u.blocks))]>>
                \o SubSeq(updates, r.upd + 1, Len(updates))

\* The subscription has ended, or the client leaves it after ResumeAfter hot
\* updates; the client subscribes again
\* with the same request and the cursor of one of the responses, against the same
\* adapters.
Resume ==
    /\ mode = "first"
    /\ pc = "done" \/ (pc = "hot" /\ nupd = ResumeAfter)
    /\ \E n \in DOMAIN out :
         /\ resumed_from' = out[n]
         /\ following' = VisibleSeq(SubSeq(out, n + 1, Len(out)))
         /\ replay' = ReplayFrom(n)
         /\ request' = [request EXCEPT !.cursor = out[n].cursor]
    /\ mode' = "resumed"
    /\ pc' = "init"
    /\ err' = "none"
    /\ state' = StateNew
    /\ start_block' = 0
    /\ to_block' = <<>>
    /\ filtered' = FALSE
    /\ logs' = <<>>
    /\ traces' = <<>>
    /\ stream' = <<>>
    /\ rpc_to' = 0
    /\ last_head' = NoHead
    /\ new_head' = NoHead
    /\ upd' = NoUpdate
    /\ nupd' = 0
    /\ updates' = <<>>
    /\ out' = <<>>
    /\ calls' = <<>>
    /\ delivered' = <<>>
    /\ UNCHANGED <<has_rpc, portal_finalized, rpc_finalized, matching, chain,
                   block_request, portal_block, block_reply, active, parked>>

NextResume == Next \/ Resume

SpecResume == Init /\ [][NextResume]_vars

\* ------------------------------------------------------------- properties

News == {i \in DOMAIN out : out[i].step = "NEW"}
Undos == {i \in DOMAIN out : out[i].step = "UNDO"}
UndosOf(u) == {i \in Undos : out[i].upd = u}
NewsOf(u) == {i \in News : out[i].src = "hot" /\ out[i].upd = u}

HotCalls == {i \in DOMAIN calls : calls[i].op = "get_hot_blocks"}

\* the head of update u as it was sent
SentHead(u) ==
    IF updates[u].blocks = <<>> THEN updates[u].base_head
    ELSE BlockHead(updates[u].blocks[Len(updates[u].blocks)])

\* last_head as the claim defines it: the baseline handed to get_hot_blocks for the
\* first update, then the head of the update before
ClaimedLastHead(u) ==
    IF u = 1 THEN calls[CHOOSE i \in HotCalls : TRUE].head ELSE SentHead(u - 1)

AdjacentNews == {i \in DOMAIN out : i + 1 \in DOMAIN out /\ i \in News /\ i + 1 \in News}

\* C2 as claimed: two consecutive NEW responses with no UNDO between them carry
\* heights h and h + 1, for every request.
C2_OrderingAnyRequest ==
    \A i \in AdjacentNews : out[i + 1].number = out[i].number + 1

\* C2 as amended: the same, for the requests that compile to no log or call filter.
C2_Ordering ==
    ~filtered => \A i \in AdjacentNews : out[i + 1].number = out[i].number + 1

C2_Witness ==
    /\ ~filtered
    /\ \E i, j, k \in AdjacentNews :
         /\ out[i].src = "portal" /\ out[i + 1].src = "rpc"
         /\ out[j].src = "rpc" /\ out[j + 1].src = "hot"
         /\ out[k].src = "hot" /\ out[k + 1].src = "hot"

\* the height an UNDO response rolls back to: the height of its cursor's block
UndoBase(r) == r.cursor[2]

\* C3: two NEW responses for the same (hash, height) have an UNDO between them that
\* rolls back below that height.
C3_NoDuplicate ==
    \A i, j \in News :
        (i < j /\ out[i].hash = out[j].hash /\ out[i].number = out[j].number)
            => \E k \in Undos : i < k /\ k < j /\ UndoBase(out[k]) < out[i].number

C3_Witness ==
    \E i, j \in News :
        /\ i < j /\ out[i].hash = out[j].hash /\ out[i].number = out[j].number
        /\ out[i].src = "hot"
        /\ rpc_finalized < out[i].number

\* C5: with a stop block, the NEW response of height stop_block_num is the last
\* response of the subscription.
C5_StopIsLast ==
    \A i \in News :
        (request.stop_block_num # 0 /\ out[i].number = request.stop_block_num)
            => i = Len(out)

\* C6: a final_blocks_only request is rejected as unsupported with no response
\* emitted and no adapter called.
C6_FinalBlocksOnly ==
    request.final_blocks_only =>
        /\ pc \in {"init", "rejected"}
        /\ pc = "rejected" => err = "Unsupported"
        /\ out = <<>>
        /\ calls = <<>>

C6_Witness ==
    /\ request.final_blocks_only
    /\ request.start_block_num < 0
    /\ pc = "rejected"

BadCursor == request.cursor # <<>> /\ Len(request.cursor) # 4
BadTransform ==
    \E i \in DOMAIN request.transforms :
        \/ ~request.transforms[i].decodable
        \/ request.transforms[i].send_all_block_headers

DataCalls == {i \in DOMAIN calls : calls[i].op \in {"get_finalized_blocks", "get_hot_blocks"}}

StartPanicked ==
    /\ pc = "panic"
    /\ AbsOverflows(request.start_block_num)
    /\ ~request.final_blocks_only
    /\ calls = <<>>

SrcRank(src) == IF src = "portal" THEN 1 ELSE IF src = "rpc" THEN 2 ELSE 3
CallRank(c) == IF c.op = "get_hot_blocks" THEN 3 ELSE SrcRank(c.ds)
IsNew(r) == r.step = "NEW"
NewSeq == SelectSeq(out, IsNew)

\* C8: the portal, RPC and hot data requests are issued at most once each and in
\* that order; responses follow the same order of sources; the NEW responses are
\* the delivered blocks in the order of their delivery.
C8_PhaseOrder ==
    /\ \A i, j \in DataCalls : i < j => CallRank(calls[i]) < CallRank(calls[j])
    /\ \A i, j \in DOMAIN out : i < j => SrcRank(out[i].src) <= SrcRank(out[j].src)
    /\ \A i \in DOMAIN out :
         \E k \in DataCalls : CallRank(calls[k]) = SrcRank(out[i].src)
    /\ Len(NewSeq) <= Len(delivered)
    /\ \A i \in DOMAIN NewSeq :
         NewSeq[i].hash = delivered[i].hash /\ NewSeq[i].number = delivered[i].height

C8_Witness ==
    /\ Cardinality(DataCalls) = 3
    /\ \E i, j, k \in News :
         /\ i + 1 < j /\ j + 1 < k
         /\ out[i].src = "portal" /\ out[j].src = "rpc" /\ out[k].src = "hot"

\* the height of the resume cursor, -1 without one
CursorHeight == IF Len(request.cursor) = 4 THEN request.cursor[2] ELSE -1

\* C9 as claimed: in phase A the current block is at most the portal height.
C9_PortalBoundAnyRequest ==
    pc = "portal" => current_block(state) <= portal_finalized

\* C9 as amended: in phase A the current block is at most the portal height when an
\* RPC adapter is configured or the resume cursor is not beyond the portal height;
\* else it stays at the cursor's height.
C9_PortalBound ==
    pc = "portal" =>
        IF has_rpc \/ CursorHeight <= portal_finalized
        THEN current_block(state) <= portal_finalized
        ELSE current_block(state) = CursorHeight

C9_Witness ==
    /\ pc = "portal"
    /\ has_rpc
    /\ CursorHeight >= 0
    /\ out # <<>>
    /\ current_block(state) = portal_finalized

RpcDataCalls == {i \in DataCalls : calls[i].op = "get_finalized_blocks" /\ calls[i].ds = "rpc"}

\* C10: from the RPC finalized data request to the state advance that ends phase B,
\* the current block is at most the RPC finalized height, and so is the upper bound
\* of the request.
C10_RpcBound ==
    (RpcDataCalls # {} /\ pc \in {"rpc", "hot_start"}) =>
        /\ current_block(state) <= rpc_finalized
        /\ \A i \in RpcDataCalls : calls[i].to[1] <= rpc_finalized

C10_Witness ==
    /\ pc = "hot_start"
    /\ RpcDataCalls # {}
    /\ request.stop_block_num > rpc_finalized
    /\ \E i \in News : out[i].src = "rpc" /\ out[i].number = rpc_finalized

IsPrefix(a, b) == Len(a) <= Len(b) /\ a = SubSeq(b, 1, Len(a))

\* the resumed subscription has delivered what the adapters have for it
ResumedQuiet == pc = "done" \/ (pc = "hot" /\ replay = <<>>)

ResponseBlock(r) == [hash |-> r.hash, height |-> r.number]

\* the last-block component of the cursor of a response
CursorBlock(r) == CursorTryFrom(r.cursor)[1].block

\* the step yields a response of phase A or B
FinalizedYield == pc \in {"portal", "rpc"} /\ Len(out') = Len(out) + 1

\* C11: every NEW response carries a cursor whose last-block component is the
\* (hash, height) of the block of that response, and in phases A and B the state
\* holds that pair when the response is yielded.
C11_StateTracksBlock ==
    /\ [](\A i \in News : CursorBlock(out[i]) = ResponseBlock(out[i]))
    /\ [][FinalizedYield =>
            /\ state' # <<>>
            /\ state'[1] = ResponseBlock(out'[Len(out')])
            /\ state'[1] = CursorBlock(out'[Len(out')])]_vars

C11_Witness ==
    /\ \E i \in News : out[i].src = "portal" /\ out[i].number > 0
    /\ \E i \in News : out[i].src = "rpc" /\ state # <<>> /\ state[1] = ResponseBlock(out[i])
    /\ \E i \in News : out[i].src = "hot" /\ out[i].hash = Hash(out[i].number, 1)

\* ------------------------------------------------------------- start resolution

\* the finalized height of the preferred source
PreferredHeight == IF has_rpc THEN rpc_finalized ELSE portal_finalized

\* the start the specification gives the request
ExpectedStart ==
    IF request.start_block_num < 0
    THEN Max(0, PreferredHeight - (0 - request.start_block_num))
    ELSE request.start_block_num

\* blocks() got past the start resolution and the request validation
Created == pc \notin {"init", "rejected", "panic"} \/ (pc = "panic" /\ calls # <<>>)

\* the resolution ended without a start though no adapter failed
ResolveFailed == err \in {"attempt to negate with overflow", "TryFromInt"}

FirstDataCall == calls[CHOOSE i \in DataCalls : \A j \in DataCalls : i <= j]

StartResolution ==
    /\ Created => start_block = ExpectedStart
    /\ (request.start_block_num >= 0 /\ pc \in {"created", "rejected"}) => calls = <<>>
    /\ (request.start_block_num < 0 /\ Created) =>
            calls[1] = HeightCall(IF has_rpc THEN "rpc" ELSE "portal")
    /\ (request.cursor = <<>> /\ DataCalls # {}) =>
            /\ FirstDataCall.from = ExpectedStart
            /\ \A i \in News : out[i].src \in {"portal", "rpc"} => out[i].number >= ExpectedStart

\* C12: a negative start_block_num -n resolves to max(0, H - n) with H the finalized
\* height of the RPC adapter when configured, else of the portal; a start >= 0 is
\* used as it is with no height queried for it; without a cursor the first data
\* request starts at the resolved start and phases A and B emit no NEW below it.
C12_NegativeStart == ~ResolveFailed /\ StartResolution

\* the same for every start_block_num above i64::MIN
NegativeStartInRange == ~AbsOverflows(request.start_block_num) => C12_NegativeStart

\* ------------------------------------------------------------- mid-stream errors

\* the stream has yielded an error
Failed == err \in {"Upstream", "Encoding"} /\ pc # "rejected"

\* C13: when an adapter call, an item of an adapter stream or the encoding of a block
\* fails, the stream ends with that error: no response is yielded after it, and the
\* block whose handling failed is not among the responses.
C13_ErrorsTerminal ==
    /\ [](Failed => pc = "error")
    /\ [](Failed /\ err = "Encoding" => Len(NewSeq) + 1 = Len(delivered))
    /\ [](Failed /\ err = "Upstream" => Len(NewSeq) = Len(delivered))
    /\ [][Failed => (out' = out /\ err' = err /\ pc' = pc)]_vars

C13_Witness ==
    /\ Failed
    /\ err = "Encoding"
    /\ nupd = 2
    /\ upd.blocks # <<>>
    /\ Undos # {}
    /\ \E i \in News : out[i].src = "rpc"

\* ------------------------------------------------------------- portal alone

PortalDataCalls ==
    {i \in DOMAIN calls : calls[i].op = "get_finalized_blocks" /\ calls[i].ds = "portal"}

\* the stream was polled and the portal answered with its height
PortalAnswered == pc \in {"portal", "done"} \/ (pc = "error" /\ out # <<>>)

\* scenario S1: start 0, stop 5, no cursor, no transforms, a portal with blocks 0..10
ScenarioS1 ==
    /\ ~has_rpc
    /\ portal_finalized = 10
    /\ request.start_block_num = 0
    /\ request.stop_block_num = 5
    /\ request.cursor = <<>>
    /\ request.transforms = <<>>
    /\ ~request.final_blocks_only

\* C14: without an RPC adapter the portal data request is issued whatever the portal
\* height and the cursor are, only NEW responses of the portal are emitted, no RPC
\* call is made, and the subscription completes when the portal stream ends; in
\* scenario S1 it completes after exactly the six NEW responses of heights 0 to 5.
C14_PortalOnly ==
    /\ [](~has_rpc =>
            /\ pc \in {"init", "rejected", "panic", "created", "portal", "done", "error"}
            /\ \A i \in DOMAIN calls : calls[i].ds = "portal"
            /\ \A i \in DOMAIN out : out[i].step = "NEW" /\ out[i].src = "portal"
            /\ PortalAnswered => Cardinality(PortalDataCalls) = 1)
    /\ [][(~has_rpc /\ pc = "portal" /\ stream = <<>>) => pc' = "done"]_vars
    /\ []((ScenarioS1 /\ pc = "done") =>
            /\ Len(out) = 6
            /\ \A i \in 1..6 : out[i].number = i - 1 /\ out[i].hash = Hash(i - 1, 0))
    /\ []((ScenarioS1 /\ pc = "portal") => (stream = <<>> <=> Len(out) = 6))

C14_Witness ==
    /\ ScenarioS1
    /\ pc = "done"
    /\ Len(out) = 6

\* a portal alone resumed from a cursor beyond its height
PortalOnlyBeyondCursor ==
    /\ ~has_rpc
    /\ CursorHeight > portal_finalized
    /\ pc = "done"
    /\ PortalDataCalls # {}

\* ------------------------------------------------------------- filter compiler

\* Bytes of addresses, topics and signatures are drawn from 1..MaxFilterByte.
MaxFilterByte == 2
FilterBytes == 1..MaxFilterByte
\* lists of at most two of them, with a repeated one
FilterLists ==
    {<<>>} \cup {<<x>> : x \in FilterBytes} \cup {<<x, y>> : x, y \in FilterBytes}
ShortLists == {<<>>} \cup {<<x>> : x \in FilterBytes}
LogFilters == {LogFilter(a, t) : a \in FilterLists, t \in FilterLists}
NextLogFilters == {LogFilter(a, t) : a \in ShortLists, t \in FilterLists}
NextCallToFilters == {CallToFilter(a, g) : a \in ShortLists, g \in FilterLists}
LastLogFilters ==
    {LogFilter(<<2>>, <<1>>), LogFilter(<<>>, <<2, 1>>), LogFilter(<<1, 2>>, <<1, 1>>)}
LastCallToFilters ==
    {CallToFilter(<<2>>, <<1>>), CallToFilter(<<>>, <<2, 1>>), CallToFilter(<<1, 2>>, <<1, 1>>)}

\* two transforms: the first with two filters of one kind, the second with one filter
\* of each kind
FilterTransforms ==
    {<<CombinedFilter(<<f, g>>, <<>>), CombinedFilter(<<h>>, <<CallToFilter(<<1>>, <<2>>)>>)>> :
        f \in LogFilters, g \in NextLogFilters, h \in LastLogFilters}
    \cup
    {<<CombinedFilter(<<>>, <<f, g>>), CombinedFilter(<<LogFilter(<<1>>, <<2>>)>>, <<h>>)>> :
        f \in NextCallToFilters, g \in NextCallToFilters, h \in LastCallToFilters}

InitFilters ==
    /\ request \in [final_blocks_only : {FALSE}, start_block_num : {0}, stop_block_num : {0},
                    cursor : {<<>>}, transforms : FilterTransforms]
    /\ has_rpc = FALSE
    /\ portal_finalized = 1
    /\ rpc_finalized = 0
    /\ matching = Heights
    /\ block_request = NoBlockRequest
    /\ portal_block = NoBlock
    /\ Alone
    /\ Fresh

\* blocks() up to the creation of the stream
NextFilters == Blocks

SpecFilters == InitFilters /\ [][NextFilters]_vars

Range(list) == {list[i] : i \in DOMAIN list}

RECURSIVE Flatten(_)
Flatten(lists) == IF lists = <<>> THEN <<>> ELSE Head(lists) \o Flatten(Tail(lists))

\* the log filters and the call filters of the request, over all its transforms
InputLogFilters ==
    Range(Flatten([i \in DOMAIN request.transforms |-> request.transforms[i].log_filters]))
InputCallFilters ==
    Range(Flatten([i \in DOMAIN request.transforms |-> request.transforms[i].call_filters]))

Count(list, x) == Cardinality({i \in DOMAIN list : list[i] = x})
Ascending(list) == \A i, j \in DOMAIN list : i < j => list[i][2] <= list[j][2]

\* key is the list of bytes, encoded and put in ascending order
SortedKeyOf(key, bytes) ==
    /\ Len(key) = Len(bytes)
    /\ Ascending(key)
    /\ \A b \in Range(bytes) \cup {k[2] : k \in Range(key)} :
            Count(key, HexEncode(b)) = Count(bytes, b)

EncodedSet(bytes) == {HexEncode(b) : b \in Range(bytes)}

\* one entry per distinct sorted key, holding the union of the addresses of the
\* filters with that key
MergedLogs ==
    /\ \A i, j \in DOMAIN logs : logs[i].topic0 = logs[j].topic0 => i = j
    /\ \A f \in InputLogFilters :
            \E i \in DOMAIN logs : SortedKeyOf(logs[i].topic0, f.event_signatures)
    /\ \A i \in DOMAIN logs :
            /\ \E f \in InputLogFilters : SortedKeyOf(logs[i].topic0, f.event_signatures)
            /\ Range(logs[i].address) =
                   UNION {EncodedSet(f.addresses) :
                            f \in {g \in InputLogFilters :
                                     SortedKeyOf(logs[i].topic0, g.event_signatures)}}

MergedTraces ==
    /\ \A i, j \in DOMAIN traces : traces[i].sighash = traces[j].sighash => i = j
    /\ \A f \in InputCallFilters :
            \E i \in DOMAIN traces : SortedKeyOf(traces[i].sighash, f.signatures)
    /\ \A i \in DOMAIN traces :
            /\ \E f \in InputCallFilters : SortedKeyOf(traces[i].sighash, f.signatures)
            /\ Range(traces[i].address) =
                   UNION {EncodedSet(f.addresses) :
                            f \in {g \in InputCallFilters :
                                     SortedKeyOf(traces[i].sighash, g.signatures)}}

\* scenario S6: two log filters with topic-0 [t] and the addresses {a} and {b}
ScenarioS6 ==
    \E i, j \in DOMAIN request.transforms :
        /\ i < j
        /\ request.transforms[i].log_filters = <<LogFilter(<<1>>, <<1>>), LogFilter(<<1>>, <<1>>)>>
        /\ request.transforms[j].log_filters = <<LogFilter(<<2>>, <<1>>)>>

\* C15: the compiled log filters have one entry per distinct topic-0 list, lists that
\* are permutations of each other being the same, and the entry's addresses are, as a
\* set, the union of the addresses of the log filters with that list; the same for
\* the call filters by sighash list; two log filters with topic-0 [t] and the
\* addresses {a} and {b} compile to one filter with topic0 [t] and addresses {a, b}.
C15_FilterMerge ==
    pc = "created" =>
        /\ MergedLogs
        /\ MergedTraces
        /\ ScenarioS6 =>
              /\ Len(logs) = 1
              /\ logs[1].topic0 = <<HexEncode(1)>>
              /\ Range(logs[1].address) = {HexEncode(1), HexEncode(2)}

\* a permuted topic list merged into an entry, and its addresses with it
C15_Witness ==
    /\ pc = "created"
    /\ Len(logs) = 1
    /\ Len(logs[1].address) = 2
    /\ Len(logs[1].topic0) = 2
    /\ request.transforms[1].log_filters = <<LogFilter(<<1>>, <<1, 2>>), LogFilter(<<2>>, <<2, 1>>)>>
    /\ request.transforms[2].log_filters = <<LogFilter(<<>>, <<2, 1>>)>>
    /\ Len(traces) = 1

\* ------------------------------------------------------------- block encoder

\* Transactions of a block have the indexes 0..MaxTxIndex.
MaxTxIndex == 1

\* A Trace: complete is whether the fields its translation needs are there and are
\* valid hex; error and revert_reason are whether these options are Some.
Trace(transaction_index, type, complete, error, revert_reason) ==
    [transaction_index |-> transaction_index, type |-> type, action_type |-> "Call",
     complete |-> complete, error |-> error, revert_reason |-> revert_reason]
\* valid is whether all hex fields and quantities of the item decode
Log(transaction_index, log_index, valid) ==
    [transaction_index |-> transaction_index, log_index |-> log_index, valid |-> valid]
Transaction(transaction_index, valid) ==
    [transaction_index |-> transaction_index, valid |-> valid]

Failure(kind) == [kind |-> kind, value |-> <<>>]
Success(value) == [kind |-> "ok", value |-> value]

\* firehose.rs 575-583
CallTypeCode(action_type) ==
    IF action_type = "Call" THEN 1
    ELSE IF action_type = "Callcode" THEN 2
    ELSE IF action_type = "Delegatecall" THEN 3
    ELSE IF action_type = "Staticcall" THEN 4
    ELSE 0

\* state_reverted is set for a trace with a revert_reason
CallTryFrom_StateReverted(value) ==
    IF value.type \in {"Suicide", "Reward"} THEN Failure("error")
    ELSE IF ~value.complete THEN Failure("error")
    ELSE Success([call_type |-> IF value.type = "Create" THEN 5
                                ELSE CallTypeCode(value.action_type),
                  status_failed |-> value.error \/ value.revert_reason,
                  status_reverted |-> value.revert_reason,
                  state_reverted |-> value.revert_reason])

\* firehose.rs 527-614: TryFrom<Trace> for pbcodec::Call; state_reverted is left at
\* its default
CallTryFrom(value) ==
    IF value.type \in {"Suicide", "Reward"} THEN Failure("error")
    ELSE IF ~value.complete THEN Failure("error")
    ELSE Success([call_type |-> IF value.type = "Create" THEN 5
                                ELSE CallTypeCode(value.action_type),
                  status_failed |-> value.error \/ value.revert_reason,
                  status_reverted |-> value.revert_reason,
                  state_reverted |-> FALSE])

\* firehose.rs 510-525: TryFrom<Log> for pbcodec::Log
LogTryFrom(value) ==
    IF value.valid
    THEN Success([block_index |-> value.log_index, index |-> value.transaction_index])
    ELSE Failure("error")

\* the status taken from the last call
TxTraceStatus_LastCall(tx_calls) ==
    IF tx_calls = <<>> THEN "panic"
    ELSE LET call == tx_calls[Len(tx_calls)]
         IN IF call.status_failed /\ call.state_reverted THEN "Reverted"
            ELSE IF call.status_failed THEN "Failed"
            ELSE "Succeeded"

\* firehose.rs 616-625: calls[0] panics on an empty list
get_tx_trace_status(tx_calls) ==
    IF tx_calls = <<>> THEN "panic"
    ELSE LET call == tx_calls[1]
         IN IF call.status_failed /\ call.state_reverted THEN "Reverted"
            ELSE IF call.status_failed THEN "Failed"
            ELSE "Succeeded"

\* firehose.rs 631-653: the items of a transaction index, in the order of the block
ByTx(items, transaction_index) ==
    SelectSeq(items, LAMBDA item : item.transaction_index = transaction_index)

\* firehose.rs 656, 665: remove() leaves nothing for a later transaction of the
\* same index
Removed(transactions, k) ==
    \E j \in 1..(k - 1) : transactions[j].transaction_index = transactions[k].transaction_index

\* collect::<anyhow::Result<Vec<_>>>: the values, or the failure of the first item
\* that has one
Collect(results) ==
    IF \E i \in DOMAIN results : results[i].kind # "ok"
    THEN Failure(results[CHOOSE i \in DOMAIN results :
                            /\ results[i].kind # "ok"
                            /\ \A j \in 1..(i - 1) : results[j].kind = "ok"].kind)
    ELSE Success([i \in DOMAIN results |-> results[i].value])

\* firehose.rs 655-686: the closure that encodes one transaction
TransactionTrace(value, k) ==
    LET tx == value.transactions[k]
        tx_logs == IF Removed(value.transactions, k) THEN <<>>
                   ELSE ByTx(value.logs, tx.transaction_index)
        tx_traces == IF Removed(value.transactions, k) THEN <<>>
                     ELSE ByTx(value.traces, tx.transaction_index)
        kept == SelectSeq(tx_traces, LAMBDA trace : trace.type \in {"Call", "Create"})
        logs_result == Collect([i \in DOMAIN tx_logs |-> LogTryFrom(tx_logs[i])])
        tx_calls == Collect([i \in DOMAIN kept |-> CallTryFrom(kept[i])])
    IN  IF logs_result.kind # "ok" THEN Failure("error")
        ELSE IF tx_calls.kind # "ok" THEN Failure("error")
        ELSE IF ~tx.valid THEN Failure("error")
        ELSE IF get_tx_trace_status(tx_calls.value) = "panic" THEN Failure("panic")
        ELSE Success([index |-> tx.transaction_index,
                      status |-> get_tx_trace_status(tx_calls.value),
                      logs |-> logs_result.value,
                      calls |-> tx_calls.value])

\* firehose.rs 627-701: TryFrom<Block> for pbcodec::Block
BlockTryFrom(value) ==
    LET transaction_traces ==
            Collect([k \in DOMAIN value.transactions |-> TransactionTrace(value, k)])
    IN  IF transaction_traces.kind # "ok" THEN transaction_traces
        ELSE IF ~value.header.valid THEN Failure("error")
        ELSE Success([number |-> value.header.number,
                      transaction_traces |-> transaction_traces.value])

\* ------------------------------------------------------------- block()

BlockNumber(num) == [kind |-> "BlockNumber", num |-> num, cursor |-> <<>>]
BlockHashAndNumber(num) == [kind |-> "BlockHashAndNumber", num |-> num, cursor |-> <<>>]
CursorReference(cursor) == [kind |-> "Cursor", num |-> 0, cursor |-> cursor]

\* firehose.rs 328-335: the height, or the panic of an unwrap
BlockNum(reference) ==
    IF reference.kind = "none" THEN Failure("panic")
    ELSE IF reference.kind = "Cursor"
    THEN IF CursorTryFrom(reference.cursor) = <<>> THEN Failure("panic")
         ELSE Success(CursorTryFrom(reference.cursor)[1].block.height)
    ELSE Success(reference.num)

\* found whenever an RPC adapter is configured
Found_AnyRpc(block_num, portal_height, rpc_is_some, rpc_height) ==
    block_num <= portal_height \/ rpc_is_some

\* firehose.rs 346-359: the block is asked of the portal
Found(block_num, portal_height, rpc_is_some, rpc_height) ==
    block_num <= portal_height \/ (rpc_is_some /\ block_num <= rpc_height)

Reply(kind, e, block) == [kind |-> kind, err |-> e, block |-> block]

\* portal.get_finalized_blocks for [n, n]: one batch with the block when it is at or
\* below the portal's height; above it the portal may or may not have the block
PortalHas(block_num) == IF block_num <= portal_finalized THEN {TRUE} ELSE BOOLEAN

\* firehose.rs 323-371: block()
Block ==
    /\ pc = "init"
    /\ block_request # NoBlockRequest
    /\ block_reply = NoReply
    /\ pc' = "replied"
    /\ UNCHANGED <<request, has_rpc, portal_finalized, rpc_finalized, matching, err, state,
                   start_block, to_block, filtered, logs, traces, stream, rpc_to, last_head,
                   new_head, upd, nupd, updates, chain, out, delivered, mode, resumed_from,
                   following, replay, block_request, portal_block, active, parked>>
    /\ IF block_request.transforms # <<>>
       THEN block_reply' = Reply("error", "Unsupported", <<>>) /\ calls' = calls
       ELSE IF BlockNum(block_request.reference).kind = "panic"
       THEN block_reply' = Reply("panic", "unwrap", <<>>) /\ calls' = calls
       ELSE LET block_num == BlockNum(block_request.reference).value
                req == DataCall("get_finalized_blocks", "portal", block_num, <<block_num>>)
            IN \E portal_ok \in BOOLEAN, rpc_ok \in BOOLEAN, blocks_ok \in BOOLEAN,
                  item_ok \in BOOLEAN, has \in PortalHas(block_num) :
                 IF ~portal_ok
                 THEN /\ calls' = Append(calls, HeightCall("portal"))
                      /\ block_reply' = Reply("error", "Upstream", <<>>)
                 ELSE IF block_num > portal_finalized /\ has_rpc /\ ~rpc_ok
                 THEN /\ calls' = calls \o <<HeightCall("portal"), HeightCall("rpc")>>
                      /\ block_reply' = Reply("error", "Upstream", <<>>)
                 ELSE LET heights == IF block_num > portal_finalized /\ has_rpc
                                     THEN <<HeightCall("portal"), HeightCall("rpc")>>
                                     ELSE <<HeightCall("portal")>>
                      IN IF ~Found(block_num, portal_finalized, has_rpc, rpc_finalized)
                         THEN /\ calls' = calls \o heights
                              /\ block_reply' = Reply("error", "NotFound", <<>>)
                         ELSE /\ calls' = calls \o heights \o <<req>>
                              /\ block_reply' =
                                   IF ~blocks_ok THEN Reply("error", "Upstream", <<>>)
                                   ELSE IF ~has THEN Reply("panic", "unwrap", <<>>)
                                   ELSE IF ~item_ok THEN Reply("error", "Upstream", <<>>)
                                   ELSE LET graph_block == BlockTryFrom(portal_block)
                                        IN IF graph_block.kind = "ok"
                                           THEN Reply("ok", "none", <<graph_block.value>>)
                                           ELSE IF graph_block.kind = "panic"
                                           THEN Reply("panic", "index out of bounds", <<>>)
                                           ELSE Reply("error", "Encoding", <<>>)

\* blocks the portal may hold
TxIndexes == 0..MaxTxIndex
TraceTypes == {"Call", "Create", "Suicide", "Reward"}
Traces ==
    {Trace(i, t, TRUE, e, r) : i \in TxIndexes, t \in TraceTypes, e \in BOOLEAN, r \in BOOLEAN}
    \cup {Trace(0, t, FALSE, FALSE, FALSE) : t \in {"Call", "Suicide"}}
TraceLists == {<<>>} \cup {<<t>> : t \in Traces} \cup {<<t, u>> : t \in Traces, u \in Traces}
LogLists ==
    {<<>>, <<Log(0, 0, TRUE)>>, <<Log(1, 0, TRUE), Log(0, 1, TRUE)>>, <<Log(0, 0, FALSE)>>}
TransactionLists ==
    {<<>>, <<Transaction(0, TRUE)>>, <<Transaction(0, TRUE), Transaction(1, TRUE)>>,
     <<Transaction(1, TRUE), Transaction(0, FALSE)>>}
PortalBlocksHeld ==
    [header : {[number |-> 1, valid |-> TRUE]}, transactions : TransactionLists,
     logs : LogLists, traces : TraceLists]
    \cup
    {[header |-> [number |-> 1, valid |-> FALSE], transactions |-> <<Transaction(0, TRUE)>>,
      logs |-> <<>>, traces |-> <<Trace(0, "Call", TRUE, FALSE, FALSE)>>]}
PlainBlocks ==
    {[header |-> [number |-> n, valid |-> v], transactions |-> <<Transaction(0, TRUE)>>,
      logs |-> <<>>, traces |-> <<Trace(0, "Call", TRUE, FALSE, FALSE)>>] :
        n \in {0}, v \in BOOLEAN}

References ==
    {NoBlockRequest.reference} \cup {BlockNumber(n) : n \in Heights}
    \cup {BlockHashAndNumber(n) : n \in Heights}
    \cup {CursorReference(c) : c \in Cursors \ {<<>>}}
BlockRequests ==
    [transforms : {<<>>, <<CombinedFilter(<<>>, <<>>)>>}, reference : References]
    \ {NoBlockRequest}

\* block() is called: any request for a plain block, or a request by number for any
\* of the blocks
InitBlock ==
    /\ request \in [final_blocks_only : {FALSE}, start_block_num : {0}, stop_block_num : {0},
                    cursor : {<<>>}, transforms : {<<>>}]
    /\ has_rpc \in BOOLEAN
    /\ portal_finalized \in PortalHeights
    /\ rpc_finalized \in (IF has_rpc THEN RpcHeights ELSE {0})
    /\ matching = Heights
    /\ \/ block_request \in BlockRequests /\ portal_block \in PlainBlocks
       \/ /\ block_request = [transforms |-> <<>>, reference |-> BlockNumber(1)]
          /\ portal_block \in PortalBlocksHeld
          /\ has_rpc
          /\ portal_finalized = 3 /\ rpc_finalized = 3
    /\ Alone
    /\ Fresh

NextBlock == Block

SpecBlock == InitBlock /\ [][NextBlock]_vars

\* the transactions of the block without a call to translate, and without a log
NoCalls(k) ==
    \A i \in DOMAIN portal_block.traces :
        portal_block.traces[i].transaction_index = portal_block.transactions[k].transaction_index
            => portal_block.traces[i].type \in {"Suicide", "Reward"}
NoLogs(k) ==
    \A i \in DOMAIN portal_block.logs :
        portal_block.logs[i].transaction_index # portal_block.transactions[k].transaction_index

\* the block was handed to the encoder
Encoded == block_reply.kind = "ok" \/ block_reply.err \in {"Encoding", "index out of bounds"}

\* nothing of the block fails to decode
AllValid ==
    /\ portal_block.header.valid
    /\ \A i \in DOMAIN portal_block.transactions : portal_block.transactions[i].valid
    /\ \A i \in DOMAIN portal_block.logs : portal_block.logs[i].valid
    /\ \A i \in DOMAIN portal_block.traces : portal_block.traces[i].complete

\* C16: a block whose items all decode is encoded also when a transaction has no
\* trace, only Suicide and Reward traces, or no log: such a transaction gets an empty
\* calls list, or an empty logs list, and the encoding does not fail.
C16_EmptyListsEncode ==
    (Encoded /\ AllValid) =>
        /\ block_reply.kind = "ok"
        /\ \A k \in DOMAIN portal_block.transactions :
              LET tx == block_reply.block[1].transaction_traces[k]
              IN /\ NoCalls(k) => tx.calls = <<>>
                 /\ NoLogs(k) => tx.logs = <<>>

\* the same holds of the transactions without a log when every transaction has a call
\* to translate, and a transaction without one makes the encoder panic
EmptyLogsEncode ==
    (Encoded /\ AllValid) =>
        IF \E k \in DOMAIN portal_block.transactions : NoCalls(k)
        THEN block_reply.kind = "panic"
        ELSE /\ block_reply.kind = "ok"
             /\ \A k \in DOMAIN portal_block.transactions :
                   NoLogs(k) => block_reply.block[1].transaction_traces[k].logs = <<>>

\* the status the rule gives a root call
RootStatus(root) ==
    IF root.status_failed /\ root.state_reverted THEN "Reverted"
    ELSE IF root.status_failed THEN "Failed"
    ELSE "Succeeded"

EncodedTransactions ==
    IF block_reply.kind = "ok" THEN block_reply.block[1].transaction_traces ELSE <<>>

\* C17: the status of an encoded transaction is that of its root call, the call at
\* index 0: Reverted if it has status_failed and state_reverted, Failed if it has
\* status_failed only, else Succeeded, whatever the other calls are.
C17_StatusFromRoot ==
    \A k \in DOMAIN EncodedTransactions :
        /\ EncodedTransactions[k].calls # <<>>
        /\ EncodedTransactions[k].status = RootStatus(EncodedTransactions[k].calls[1])

\* a failed root call followed by a call that did not fail, and the other way round
C17_Witness ==
    /\ Len(EncodedTransactions) = 1
    /\ Len(EncodedTransactions[1].calls) = 2
    /\ EncodedTransactions[1].status = "Failed"
    /\ EncodedTransactions[1].calls[1].status_reverted
    /\ ~EncodedTransactions[1].calls[2].status_failed

OtherCallFailed ==
    /\ Len(EncodedTransactions) = 1
    /\ Len(EncodedTransactions[1].calls) = 2
    /\ EncodedTransactions[1].status = "Succeeded"
    /\ EncodedTransactions[1].calls[2].status_failed

\* ------------------------------------------------------------- single block

Replied == block_reply # NoReply

\* the height the request names, when its reference gives one
RequestedHeight == BlockNum(block_request.reference).value

\* a get_finalized_height call failed: the heights are not known
HeightFailed == block_reply.err = "Upstream" /\ DataCalls = {}

NotFoundCase ==
    /\ RequestedHeight > portal_finalized
    /\ ~has_rpc \/ RequestedHeight > rpc_finalized

\* C18: block() with empty transforms answers not-found exactly when the height is
\* above the portal's finalized height and no RPC adapter is configured or the height
\* is above the RPC finalized height too; otherwise it issues one request, for the
\* range [height, height], to the portal. With transforms it fails as unsupported
\* before any adapter is called.
C18_SingleBlock ==
    /\ (Replied /\ block_request.transforms # <<>>) =>
            /\ block_reply = Reply("error", "Unsupported", <<>>)
            /\ calls = <<>>
    /\ (Replied /\ block_request.transforms = <<>>
          /\ BlockNum(block_request.reference).kind = "ok" /\ ~HeightFailed) =>
            /\ block_reply.err = "NotFound" <=> NotFoundCase
            /\ NotFoundCase => DataCalls = {}
            /\ ~NotFoundCase =>
                  /\ Cardinality(DataCalls) = 1
                  /\ \A i \in DataCalls :
                        calls[i] = DataCall("get_finalized_blocks", "portal", RequestedHeight,
                                            <<RequestedHeight>>)

\* a height between the portal's and the RPC adapter's: the portal is asked
C18_Witness ==
    /\ Replied
    /\ has_rpc
    /\ block_request.reference.kind = "Cursor"
    /\ BlockNum(block_request.reference).kind = "ok"
    /\ RequestedHeight > portal_finalized
    /\ RequestedHeight <= rpc_finalized
    /\ DataCalls # {}

SingleBlockNotFound ==
    /\ block_reply.err = "NotFound"
    /\ has_rpc
    /\ Len(calls) = 2

\* ------------------------------------------------------------- two subscriptions

\* The locals of one call of blocks() and of its stream, with what the adapters hold
\* for that call: the blocks matching its filters and the streams opened for it.
Context ==
    [request |-> request, matching |-> matching, pc |-> pc, err |-> err, state |-> state,
     start_block |-> start_block, to_block |-> to_block, filtered |-> filtered,
     logs |-> logs, traces |-> traces, stream |-> stream, rpc_to |-> rpc_to,
     last_head |-> last_head, new_head |-> new_head, upd |-> upd, nupd |-> nupd,
     updates |-> updates, out |-> out, calls |-> calls, delivered |-> delivered]

\* the task resumed at a suspension point finds the StreamState of the task that ran
\* before it
RestoreState_Shared(saved, current) == current

\* the task resumed at a suspension point finds its own StreamState
RestoreState(saved, current) == saved

\* The running task is suspended at an await and the other one is resumed.
Switch ==
    /\ mode = "paired"
    /\ active' = 3 - active
    /\ parked' = Context
    /\ request' = parked.request
    /\ matching' = parked.matching
    /\ pc' = parked.pc
    /\ err' = parked.err
    /\ state' = RestoreState(parked.state, state)
    /\ start_block' = parked.start_block
    /\ to_block' = parked.to_block
    /\ filtered' = parked.filtered
    /\ logs' = parked.logs
    /\ traces' = parked.traces
    /\ stream' = parked.stream
    /\ rpc_to' = parked.rpc_to
    /\ last_head' = parked.last_head
    /\ new_head' = parked.new_head
    /\ upd' = parked.upd
    /\ nupd' = parked.nupd
    /\ updates' = parked.updates
    /\ out' = parked.out
    /\ calls' = parked.calls
    /\ delivered' = parked.delivered
    /\ UNCHANGED <<has_rpc, portal_finalized, rpc_finalized, chain, mode, resumed_from,
                   following, replay, block_request, portal_block, block_reply>>

OddHeights == {h \in Heights : h % 2 = 1}

\* requests of the two subscriptions: from the start without a stop, a filtered range,
\* and a resume from a block the node has left
PairRequests ==
    {[final_blocks_only |-> FALSE, start_block_num |-> 0, stop_block_num |-> 0,
      cursor |-> <<>>, transforms |-> <<>>],
     [final_blocks_only |-> FALSE, start_block_num |-> 1, stop_block_num |-> 3,
      cursor |-> <<>>, transforms |-> <<CombinedFilter(<<LogFilter(<<1>>, <<1>>)>>, <<>>)>>],
     [final_blocks_only |-> FALSE, start_block_num |-> 0, stop_block_num |-> 0,
      cursor |-> CursorToString(CursorNew(HashAndHeight(3, 1), HashAndHeight(3, 1))),
      transforms |-> <<>>]}

MatchingOf(req) == IF CompiledFilters(req.transforms) THEN OddHeights ELSE Heights

FreshContext(req) ==
    [request |-> req, matching |-> MatchingOf(req), pc |-> "init", err |-> "none",
     state |-> StateNew, start_block |-> 0, to_block |-> <<>>, filtered |-> FALSE,
     logs |-> <<>>, traces |-> <<>>, stream |-> <<>>, rpc_to |-> 0, last_head |-> NoHead,
     new_head |-> NoHead, upd |-> NoUpdate, nupd |-> 0, updates |-> <<>>, out |-> <<>>,
     calls |-> <<>>, delivered |-> <<>>]

\* two calls of blocks() on one Firehose
InitPair ==
    /\ request \in PairRequests
    /\ has_rpc = TRUE
    /\ portal_finalized = 1
    /\ rpc_finalized = 2
    /\ matching = MatchingOf(request)
    /\ block_request = NoBlockRequest
    /\ portal_block = NoBlock
    /\ active = 1
    /\ parked \in {FreshContext(req) : req \in PairRequests}
    /\ pc = "init"
    /\ err = "none"
    /\ state = StateNew
    /\ start_block = 0
    /\ to_block = <<>>
    /\ filtered = FALSE
    /\ logs = <<>>
    /\ traces = <<>>
    /\ stream = <<>>
    /\ rpc_to = 0
    /\ last_head = NoHead
    /\ new_head = NoHead
    /\ upd = NoUpdate
    /\ nupd = 0
    /\ updates = <<>>
    /\ chain = [h \in Heights |-> 0]
    /\ out = <<>>
    /\ calls = <<>>
    /\ delivered = <<>>
    /\ mode = "paired"
    /\ resumed_from = NoResponse
    /\ following = <<>>
    /\ replay = <<>>
    /\ block_reply = NoReply

NextPair == Next \/ Switch

SpecPair == InitPair /\ [][NextPair]_vars

\* the locals of subscription i
ViewOf(i) == IF active = i THEN Context ELSE parked

\* what the client of a subscription has received is what the adapters delivered to
\* that subscription, in the order of the delivery
OutOfOwnBlocks(view) ==
    LET news == SelectSeq(view.out, IsNew)
    IN /\ Len(news) = Len(view.delivered)
       /\ \A n \in DOMAIN news :
             news[n].hash = view.delivered[n].hash /\ news[n].number = view.delivered[n].height
       /\ \A n \in DOMAIN view.out :
             view.out[n].step = "UNDO" =>
                 view.out[n].parent_hash = view.updates[view.out[n].upd].base_head.hash

\* C19: with two subscriptions interleaved at their suspension points, the locals of
\* a subscription (its StreamState, last_head, compiled filters, its responses)
\* change only by a step that subscription takes while it is the running task (a
\* step of blocks(), not a task switch), and its responses are those of the blocks
\* and updates the adapters delivered to it.
C19_Isolation ==
    /\ [][\A i \in {1, 2} :
            (ViewOf(i))' # ViewOf(i) => (active = i /\ active' = i)]_vars
    /\ [](\A i \in {1, 2} : OutOfOwnBlocks(ViewOf(i)))

\* one subscription tails the head after a reorg while the other, with its own
\* filters, is catching up
C19_Witness ==
    /\ mode = "paired"
    /\ active = 2
    /\ pc = "rpc"
    /\ filtered
    /\ out # <<>>
    /\ ~parked.filtered
    /\ parked.pc = "hot"
    /\ \E n \in DOMAIN parked.out : parked.out[n].step = "UNDO"
    /\ parked.last_head # state[1]

\* ------------------------------------------------------------- phase A entry

\* the state blocks() hands to the stream
StateAtStart == InitialState(request.cursor).state

\* the stream got the portal's height and went on
PastPortalHeight ==
    pc \in {"portal", "rpc_check", "rpc", "hot_start", "hot", "hot_blocks", "done"}

PortalEntryCase == portal_finalized > current_block(StateAtStart) \/ ~has_rpc

\* C20: the portal data request is issued if and only if the portal's finalized height
\* is greater than state.current_block or no RPC adapter is configured; its range is
\* from max(state.next_block, start) to the stop block, unset when open-ended; with an
\* RPC adapter and a portal height at or below state.current_block no portal data
\* request is issued and no portal block is emitted.
C20_PhaseAEntry ==
    /\ PastPortalHeight => (PortalDataCalls # {} <=> PortalEntryCase)
    /\ \A i \in PortalDataCalls :
          /\ PortalEntryCase
          /\ calls[i].from = Max(next_block(StateAtStart), ExpectedStart)
          /\ calls[i].to = (IF request.stop_block_num = 0 THEN <<>>
                            ELSE <<request.stop_block_num>>)
    /\ (has_rpc /\ portal_finalized <= current_block(StateAtStart)) =>
          /\ PortalDataCalls = {}
          /\ \A i \in DOMAIN out : out[i].src # "portal"

\* a resume from the portal's own height with an RPC adapter: phase A is skipped
C20_Witness ==
    /\ has_rpc
    /\ CursorHeight = portal_finalized
    /\ PastPortalHeight
    /\ PortalDataCalls = {}
    /\ \E i \in News : out[i].src = "rpc" /\ out[i].number = portal_finalized + 1

PhaseAEntered ==
    /\ has_rpc
    /\ CursorHeight >= 0
    /\ CursorHeight < portal_finalized
    /\ PortalDataCalls # {}
    /\ out # <<>>

\* ------------------------------------------------------------- catch-up

\* Requests of the catch-up: a start beyond the finalized heights, a stop below the
\* resume cursor, sources that hold nothing the filters match.
CatchUpStarts == {0, 4}
CatchUpStops == {0, 1, 3}
CatchUpCursorHeights == {2}
CatchUpPortalHeights == {1, 3}
CatchUpRpcHeights == {0, 2, 4}

CatchUpRequests ==
    {[final_blocks_only |-> FALSE, start_block_num |-> start, stop_block_num |-> stop,
      cursor |-> cursor, transforms |-> transforms] :
        start \in CatchUpStarts, stop \in CatchUpStops,
        cursor \in {<<>>} \cup
                   {CursorToString(CursorNew(HashAndHeight(h, 0), HashAndHeight(h, 0))) :
                        h \in CatchUpCursorHeights},
        transforms \in {<<>>, <<CombinedFilter(<<LogFilter(<<1>>, <<1>>)>>, <<>>)>>}}

InitCatchUp ==
    /\ request \in CatchUpRequests
    /\ has_rpc \in BOOLEAN
    /\ portal_finalized \in CatchUpPortalHeights
    /\ rpc_finalized \in (IF has_rpc THEN CatchUpRpcHeights ELSE {0})
    /\ matching \in (IF CompiledFilters(request.transforms)
                     THEN {{}, OddHeights} ELSE {Heights})
    /\ block_request = NoBlockRequest
    /\ portal_block = NoBlock
    /\ Alone
    /\ Fresh

NextCatchUp == Next

SpecCatchUp == InitCatchUp /\ [][NextCatchUp]_vars

\* ------------------------------------------------------------- phase B baseline

PortalNews == {i \in News : out[i].src = "portal"}
RpcNews == {i \in News : out[i].src = "rpc"}

\* the state phase A left: the last block it emitted, else the state of the cursor
StateAfterPortal ==
    IF PortalNews = {} THEN StateAtStart
    ELSE LET i == CHOOSE n \in PortalNews : \A m \in PortalNews : m <= n
         IN <<[hash |-> out[i].hash, height |-> out[i].number]>>

\* to' of the specification
ToPrime ==
    IF request.stop_block_num = 0 THEN rpc_finalized
    ELSE Min(request.stop_block_num, rpc_finalized)

Baseline == [hash |-> get_block_hash(ToPrime), height |-> ToPrime]

\* phase B ran and the state advance that ends it is done
PhaseBDone == RpcDataCalls # {} /\ pc \in {"hot_start", "hot", "hot_blocks", "done"}

\* phase B was passed over
PhaseBSkipped == RpcDataCalls = {} /\ pc \in {"hot_start", "hot", "hot_blocks"}

\* C21: phase B runs when the RPC finalized height Hr is above state.current_block; it
\* requests [max(next_block, start), to'] with to' = min(stop, Hr), or Hr without a
\* stop; once its stream is drained the state is (to', rpc.get_block_hash(to')), also
\* when no block came; a subscription that goes on hands exactly that pair to
\* get_hot_blocks as last_head, with from = max(to' + 1, start); it ends after phase B
\* with no hot request exactly when to' is the stop.
C21_PhaseBBaseline ==
    /\ RpcDataCalls # {} => has_rpc /\ rpc_finalized > current_block(StateAfterPortal)
    /\ PhaseBSkipped => rpc_finalized <= current_block(StateAfterPortal)
    /\ \A i \in RpcDataCalls :
          /\ calls[i].from = Max(next_block(StateAfterPortal), ExpectedStart)
          /\ calls[i].to = <<ToPrime>>
    /\ PhaseBDone =>
          /\ state = <<Baseline>>
          /\ pc = "done" <=> (request.stop_block_num # 0 /\ ToPrime = request.stop_block_num)
          /\ pc = "done" => HotCalls = {}
          /\ pc \in {"hot", "hot_blocks"} => HotCalls # {}
    /\ RpcDataCalls # {} =>
          \A i \in HotCalls :
             /\ calls[i].head = Baseline
             /\ calls[i].from = Max(ToPrime + 1, ExpectedStart)

\* phase B delivered no block, the start being beyond to' + 1, and the subscription
\* tails the head from that start
C21_Witness ==
    /\ PhaseBDone
    /\ RpcNews = {}
    /\ ExpectedStart > ToPrime + 1
    /\ pc = "hot"
    /\ \E i \in HotCalls : calls[i].head = Baseline /\ calls[i].from = ExpectedStart

\* phase B emitted blocks up to to' = stop and the subscription ended
PhaseBStopped ==
    /\ PhaseBDone
    /\ RpcNews # {}
    /\ pc = "done"
    /\ ToPrime = request.stop_block_num

\* ------------------------------------------------------------- UNDO content

\* A subscription from block 0 that tails a node whose finalized height is 1 and
\* whose head is replaced two blocks deep.
ReorgRequest ==
    [final_blocks_only |-> FALSE, start_block_num |-> 0, stop_block_num |-> 0,
     cursor |-> <<>>, transforms |-> <<>>]

InitReorg ==
    /\ request = ReorgRequest
    /\ has_rpc = TRUE
    /\ portal_finalized \in {0, 1}
    /\ rpc_finalized = 1
    /\ matching = Heights
    /\ block_request = NoBlockRequest
    /\ portal_block = NoBlock
    /\ Alone
    /\ pc = "init"
    /\ err = "none"
    /\ state = StateNew
    /\ start_block = 0
    /\ to_block = <<>>
    /\ filtered = FALSE
    /\ logs = <<>>
    /\ traces = <<>>
    /\ stream = <<>>
    /\ rpc_to = 0
    /\ last_head = NoHead
    /\ new_head = NoHead
    /\ upd = NoUpdate
    /\ nupd = 0
    /\ updates = <<>>
    /\ chain = [h \in Heights |-> 0]
    /\ out = <<>>
    /\ calls = <<>>
    /\ delivered = <<>>
    /\ mode = "reorg"
    /\ resumed_from = NoResponse
    /\ following = <<>>
    /\ replay = <<>>
    /\ block_reply = NoReply

NextReorg == Next

SpecReorg == InitReorg /\ [][NextReorg]_vars

HotNews == {i \in News : out[i].src = "hot"}

\* the block of update u that response i carries
CarriedBlock(i, u) ==
    \E k \in DOMAIN updates[u].blocks :
        /\ updates[u].blocks[k].hash = out[i].hash
        /\ updates[u].blocks[k].height = out[i].number

\* delivered A(h+1), A(h+2), then HotUpdate{base_head = (hash h, h), blocks = [B(h+1),
\* B(h+2), B(h+3)]}: one UNDO with number h+2 and parent_hash hash h, then NEW for
\* the three blocks in that order
ScenarioReorg ==
    \E u \in DOMAIN updates, i \in Undos :
        LET base == updates[u].base_head
            h == base.height
        IN /\ u >= 2
           /\ updates[u].blocks = <<HashAndHeight(h + 1, 1), HashAndHeight(h + 2, 1),
                                     HashAndHeight(h + 3, 1)>>
           /\ base = HashAndHeight(h, 0)
           /\ i >= 3 /\ i + 3 = Len(out)
           /\ out[i - 2].step = "NEW" /\ out[i - 2].hash = Hash(h + 1, 0)
           /\ out[i - 1].step = "NEW" /\ out[i - 1].hash = Hash(h + 2, 0)
           /\ UndosOf(u) = {i}
           /\ out[i].number = h + 2 /\ out[i].parent_hash = Hash(h, 0)
           /\ \A k \in 1..3 :
                 /\ out[i + k].step = "NEW"
                 /\ out[i + k].number = h + k
                 /\ out[i + k].hash = Hash(h + k, 1)

\* C22: every UNDO response carries a block with only number = the height of
\* last_head, the head before the update, and parent_hash = the hash of the update's
\* base_head, and the cursor (base_head, finalized_head) of the update; every NEW
\* response of phase C carries a block of its update and the cursor (that block,
\* finalized_head of the update).
C22_UndoContent ==
    /\ \A i \in Undos :
          LET u == out[i].upd
          IN /\ u \in DOMAIN updates
             /\ out[i].number = ClaimedLastHead(u).height
             /\ out[i].parent_hash = updates[u].base_head.hash
             /\ out[i].hash = <<>>
             /\ out[i].cursor =
                    CursorToString(CursorNew(updates[u].base_head, updates[u].finalized_head))
    /\ \A i \in HotNews :
          LET u == out[i].upd
          IN /\ u \in DOMAIN updates
             /\ CarriedBlock(i, u)
             /\ out[i].parent_hash = <<>>
             /\ out[i].cursor =
                    CursorToString(CursorNew([hash |-> out[i].hash, height |-> out[i].number],
                                             updates[u].finalized_head))

C22_Witness == ScenarioReorg

\* ------------------------------------------------------------- normal completion

\* the stream ended with no error
Completed == pc = "done"

StopNews == {i \in News : out[i].number = request.stop_block_num}

\* the request asks for blocks up to the stop: no filter, and a start and a resume
\* cursor that are not beyond the stop
RangeToStop ==
    /\ request.stop_block_num # 0
    /\ request.transforms = <<>>
    /\ ExpectedStart <= request.stop_block_num
    /\ CursorHeight <= request.stop_block_num

\* C23: when a stop is configured and the stream completes without an error, a NEW
\* response for the stop block was emitted or the resume cursor was already at the
\* stop; with a portal alone or with an RPC adapter, for any finalized heights. Read
\* for the requests whose range up to the stop holds blocks to deliver.
C23_StopDelivered ==
    (RangeToStop /\ Completed) =>
        StopNews # {} \/ CursorHeight = request.stop_block_num

\* a portal alone whose finalized height is below the stop: the blocks up to that
\* height are emitted and the stream completes
StopBeyondPortal ==
    /\ ~has_rpc
    /\ request.cursor = <<>>
    /\ request.transforms = <<>>
    /\ request.stop_block_num > portal_finalized
    /\ Completed
    /\ Len(out) = portal_finalized + 1 - ExpectedStart
    /\ out # <<>>
    /\ StopNews = {}

\* with an RPC adapter such a stream completes only with the stop block emitted
StopDeliveredWithRpc ==
    (RangeToStop /\ Completed /\ has_rpc) =>
        StopNews # {} \/ CursorHeight = request.stop_block_num

\* ------------------------------------------------------------- the state in phase C

\* State::cursor and From<State> for HashAndHeight found the state unset
StateUnset == pc = "panic" /\ err = "state should be updated first"

\* the stream is at the conversion of the state into last_head, or past it
AtPhaseC == pc \in {"hot_start", "hot", "hot_blocks"}

\* C24: on every path to the conversion of StreamState into last_head the state is
\* set, so the 'state should be updated first' failure does not occur; and
\* State::cursor, called for the responses of phases A and B, finds the state set.
C24_StateSet ==
    /\ [](AtPhaseC => state # StateNew)
    /\ [](~StateUnset)
    /\ [][(pc \in {"portal", "rpc"} /\ Len(out') > Len(out)) => state' # StateNew]_vars

\* no cursor, an RPC adapter at height 0 and sources that hold no block the filters
\* match: phases A and B ran and delivered nothing, and phase C began from the state
\* phase B ends with
C24_Witness ==
    /\ request.cursor = <<>>
    /\ rpc_finalized = 0
    /\ PortalDataCalls # {}
    /\ RpcDataCalls # {}
    /\ delivered = <<>>
    /\ pc = "hot"
    /\ state # StateNew
    /\ last_head = state[1]

\* a resume at the finalized heights: phases A and B are passed over and phase C
\* begins from the state of the cursor
PhaseCFromCursor ==
    /\ CursorHeight >= 0
    /\ PortalDataCalls = {}
    /\ RpcDataCalls = {}
    /\ pc = "hot"
    /\ state = StateAtStart
    /\ last_head = state[1]

\* ------------------------------------------------------------- the state in catch-up

\* a step of phase A or B: a block of a finalized stream, or the end of the stream
CatchUpStep == pc \in {"portal", "rpc"}

\* C25: across phases A and B every update of StreamState.last, one per emitted block
\* and the advance to (to', hash) that ends phase B, sets a height at or above the
\* height held before, starting from the height of the resume cursor; for every
\* cursor height, start, stop, Hp and Hr.
C25_StateMonotone ==
    [][CatchUpStep => current_block(state') >= current_block(state)]_vars

\* a resume beyond the stop block: phase B ended with the state set back to the stop
StateBelowCursor ==
    /\ pc = "done"
    /\ RpcDataCalls # {}
    /\ out = <<>>
    /\ state # StateNew
    /\ current_block(state) = request.stop_block_num
    /\ current_block(state) < CursorHeight

\* the same for the requests with no stop or a stop at or above the resume cursor
StateMonotoneToStop ==
    [][(CatchUpStep /\ (request.stop_block_num = 0 \/ request.stop_block_num >= CursorHeight))
            => current_block(state') >= current_block(state)]_vars

\* ------------------------------------------------------------- no Reverted status

\* the traces of transaction k that are translated, in the order of the block
TranslatedTraces(k) ==
    SelectSeq(portal_block.traces,
              LAMBDA trace : /\ trace.transaction_index =
                                    portal_block.transactions[k].transaction_index
                             /\ trace.type \in {"Call", "Create"})

\* the root trace of transaction k: the first of them
RootTrace(k) == TranslatedTraces(k)[1]

\* C26: no encoded transaction has the status Reverted: every call the trace
\* translator produces has state_reverted = false, status_failed and status_reverted
\* alone being derived from the error and the revert_reason of the trace, so the
\* status is Failed when the root trace has an error or a revert_reason, else
\* Succeeded.
C26_NeverReverted ==
    \A k \in DOMAIN EncodedTransactions :
        LET tx == EncodedTransactions[k]
        IN /\ tx.status # "Reverted"
           /\ Len(tx.calls) = Len(TranslatedTraces(k))
           /\ \A c \in DOMAIN tx.calls :
                 /\ ~tx.calls[c].state_reverted
                 /\ tx.calls[c].status_failed <=>
                        (TranslatedTraces(k)[c].error \/ TranslatedTraces(k)[c].revert_reason)
                 /\ tx.calls[c].status_reverted <=> TranslatedTraces(k)[c].revert_reason
           /\ tx.status = IF RootTrace(k).error \/ RootTrace(k).revert_reason
                          THEN "Failed" ELSE "Succeeded"

\* a transaction whose only trace has a revert_reason and no error is encoded with
\* the status Failed
C26_Witness ==
    /\ Len(EncodedTransactions) = 1
    /\ Len(EncodedTransactions[1].calls) = 1
    /\ RootTrace(1).revert_reason
    /\ ~RootTrace(1).error
    /\ EncodedTransactions[1].calls[1].status_reverted
    /\ EncodedTransactions[1].status = "Failed"

\* a root trace with an error and no revert_reason, and one with neither
RootFailedOnError ==
    /\ Len(EncodedTransactions) = 2
    /\ RootTrace(1).error /\ ~RootTrace(1).revert_reason
    /\ EncodedTransactions[1].status = "Failed"
    /\ ~RootTrace(2).error /\ ~RootTrace(2).revert_reason
    /\ EncodedTransactions[2].status = "Succeeded"

====
